---- MODULE Spec2Model ----
(***************************************************************************)
(* RealPPGProcessor (src/App.js, lines 1404-2171) together with its        *)
(* FingerDetector (src/unnamed/part_000), as a state machine.              *)
(*                                                                         *)
(* Units.  Times are milliseconds (Date.now()).  Confidence, stability     *)
(* and amplitudes are in thousandths, so 1000 stands for 1.0.  SNR is in   *)
(* tenths of a dB, temperature in tenths of a degree C, an unrounded       *)
(* heart rate in tenths of a BPM and an unrounded pressure in tenths of a  *)
(* mmHg.  Math.round(x) of a value held in tenths is (x + 5) \div 10.      *)
(*                                                                         *)
(* What is abstracted.  The pixel arithmetic of the detector is reduced    *)
(* to the class of the image it is given (ImageClasses); the filters and   *)
(* statistics computed over the buffered sample values are reduced to the  *)
(* figures they produce (SignalFeatures), which the code itself makes      *)
(* random by adding Math.random() noise to every sample (line 1563).       *)
(* The try blocks of detectFinger, extractPPGSignal, calculateVitalSigns,  *)
(* calculateConfidence and processFrame each have a fault input that takes *)
(* their catch branch.                                                     *)
(***************************************************************************)
EXTENDS Integers, Sequences, FiniteSets, TLC

VARIABLES
  signalBuffer,           \* RealPPGProcessor.signalBuffer
  heartRateHistory,       \* RealPPGProcessor.heartRateHistory
  bpHistory,              \* RealPPGProcessor.bpHistory
  temperature,            \* RealPPGProcessor.temperature (tenths of a degree)
  childAge,               \* RealPPGProcessor.childAge
  isProcessing,           \* RealPPGProcessor.isProcessing
  lastProcessTime,        \* RealPPGProcessor.lastProcessTime
  fingerDetected,         \* FingerDetector.fingerDetected
  consecutiveDetections,  \* FingerDetector.consecutiveDetections
  now,                    \* the clock read by Date.now()
  pc,                     \* "idle", or "await" while processFrame is suspended at its await
  pending,                \* the image data held by the suspended processFrame call
  op,                     \* the operation that made the last step
  result,                 \* what the call returned, when the last step was a return
  imageSource,            \* which extractImageData is linked in: the repository's or the platform's
  resetFrom,              \* what the state was when reset() made the last step
  arrived,                \* every sample handed to addToBuffer by a direct call, in order
  classified,             \* the outcome of every direct detectFinger call, in order
  args,                   \* the argument of the setter or direct call that made the last step
  returnValue,            \* what a directly called estimator or signal function returned, when the
                          \* last step was such a call
  ui                      \* the state the app's screen keeps of the scan (README.md, 246-256)

vars == <<signalBuffer, heartRateHistory, bpHistory, temperature, childAge,
          isProcessing, lastProcessTime, fingerDetected, consecutiveDetections,
          now, pc, pending, result, op, imageSource, resetFrom, arrived, classified,
          args, returnValue, ui>>

\* The processor's own fields: what reset() and the constructor are about.
sessionState == <<signalBuffer, heartRateHistory, bpHistory, fingerDetected,
                  consecutiveDetections, isProcessing, lastProcessTime>>

\* The fields a dropped frame must leave alone.
processorState == <<signalBuffer, heartRateHistory, bpHistory, fingerDetected,
                    consecutiveDetections, isProcessing, lastProcessTime,
                    temperature, childAge>>

-----------------------------------------------------------------------------
(* Bounds of the model.  The first four stand for the constructor's        *)
(* maxBufferSize = 300, minValidSamples = 90, maxHistorySize = 10 and      *)
(* maxBPHistorySize = 5, scaled down so that the buffer and the histories  *)
(* fill and overflow within the explored runs; the code only ever compares *)
(* lengths with them.                                                      *)
maxBufferSize == 3
minValidSamples == 2
maxHistorySize == 2
maxBPHistorySize == 2
\* How many processing intervals the clock runs on for after construction.
MaxIntervals == 6
\* The most direct addToBuffer calls explored by SpecBuffer.
MaxArrived == 5
\* The most direct detectFinger calls explored by SpecDetector.
MaxClassified == 10
\* The longest signal handed to normalizeSignal by SpecSignal.
MaxSignalLength == 3
\* The length of the signals handed to findPeaks by SpecSignal: a little
\* under half a second of samples one processing interval apart.
PeakSignalLength == 14

(* Program constants. *)
requiredDetections == 5
processingInterval == 33
minHeartRate == 60
maxHeartRate == 200
snrThreshold == 30
stabilityThreshold == 800
amplitudeThreshold == 100

\* Date.now() when the processor is constructed (any time after the epoch's
\* first processing interval), the clock's step, and the end of the
\* explored run.
StartTime == 2 * processingInterval
TickShort == processingInterval \div 3
MaxTime == StartTime + MaxIntervals * processingInterval

-----------------------------------------------------------------------------
(* Optional values: null is the empty sequence, a value v is <<v>>. *)
None == <<>>
Some(v) == <<v>>

Max(a, b) == IF a > b THEN a ELSE b
Min(a, b) == IF a < b THEN a ELSE b
\* Math.round of a value held in tenths
Round10(x) == (x + 5) \div 10

-----------------------------------------------------------------------------
(* Frames and images.                                                      *)
(* A frame is what the caller passes to processFrame: either an object     *)
(* with usable width and height (sized) or something extractImageData      *)
(* cannot size (null, undefined, a negative width: its try block throws).  *)
(* scene is what the camera saw.  An image is classed by what the          *)
(* detector's pipeline finds in it: "gray" has no skin-coloured pixel,     *)
(* "blob" has a skin-coloured region that is not finger-shaped, "finger"   *)
(* has a finger-shaped one.                                                *)
ImageClasses == {"gray", "blob", "finger"}
Frames == [sized : BOOLEAN, scene : ImageClasses]

\* Math.round(num / den) for a positive den.
RoundDiv(num, den) == (2 * num + den) \div (2 * den)

\* rgbToHsv on one pixel, as stored in the Uint8ClampedArray: the hue in
\* degrees held at 255 by the array, the saturation and the value on 0..255.
\* The division of r, g, b by 255 cancels in every quotient.
rgbToHsv(pixel) ==
  LET max == Max(pixel.r, Max(pixel.g, pixel.b))
      min == Min(pixel.r, Min(pixel.g, pixel.b))
      diff == max - min
      rounded == IF diff = 0 THEN 0
                 ELSE IF max = pixel.r THEN RoundDiv(60 * (pixel.g - pixel.b), diff)
                 ELSE IF max = pixel.g THEN RoundDiv(60 * (pixel.b - pixel.r + 2 * diff), diff)
                 ELSE RoundDiv(60 * (pixel.r - pixel.g + 4 * diff), diff)
      hue == IF rounded < 0 THEN rounded + 360 ELSE rounded
  IN [h |-> Min(255, hue),
      s |-> IF max = 0 THEN 0 ELSE RoundDiv(255 * diff, max),
      v |-> max]

\* FingerDetector.skinColorRanges: light, medium and dark skin tones.
skinColorRanges ==
  { [lower |-> [h |-> 0, s |-> 20, v |-> 70], upper |-> [h |-> 20, s |-> 255, v |-> 255]],
    [lower |-> [h |-> 0, s |-> 30, v |-> 60], upper |-> [h |-> 25, s |-> 255, v |-> 255]],
    [lower |-> [h |-> 0, s |-> 40, v |-> 50], upper |-> [h |-> 30, s |-> 255, v |-> 255]] }

\* createSkinMask gone wrong: the saturation is not looked at.
isSkin_anySaturation(hsv) ==
  \E range \in skinColorRanges :
    /\ hsv.h >= range.lower.h /\ hsv.h <= range.upper.h
    /\ hsv.v >= range.lower.v /\ hsv.v <= range.upper.v

\* createSkinMask's test of one pixel: within any of the skin colour ranges.
isSkin(hsv) ==
  \E range \in skinColorRanges :
    /\ hsv.h >= range.lower.h /\ hsv.h <= range.upper.h
    /\ hsv.s >= range.lower.s /\ hsv.s <= range.upper.s
    /\ hsv.v >= range.lower.v /\ hsv.v <= range.upper.v

\* The class of an image whose pixels all have one colour: without skin
\* colour "gray"; with it, one region filling the square findContours takes
\* the mask for, whose aspect ratio of 1 is not a finger's.
UniformImage(pixel) == IF isSkin(rgbToHsv(pixel)) THEN "blob" ELSE "gray"

\* The pixel extractImageData writes everywhere.
PlaceholderPixel == [r |-> 128, g |-> 128, b |-> 128]

\* extractImageData as the repository has it: every pixel is RGB 128,128,128
\* whatever the frame holds; null when the try block throws.
extractImageData(frame) ==
  IF frame.sized THEN Some(UniformImage(PlaceholderPixel)) ELSE None

\* extractImageData as a platform decoder: the pixels the camera saw.
platformImageData(frame) ==
  IF frame.sized THEN Some(frame.scene) ELSE None

ImageDataOf(source, frame) ==
  IF source = "placeholder" THEN extractImageData(frame) ELSE platformImageData(frame)

-----------------------------------------------------------------------------
(* FingerDetector *)

\* rgbToHsv, createSkinMask, findContours, findFingerContour: the contour of
\* the first finger-shaped skin region, null when there is none.
findFingerContour(imageData) ==
  IF imageData = "finger" THEN Some("contour") ELSE None

\* detectFinger gone wrong: a negative classification clears the flag but
\* leaves the count.
detectFinger_keepsCount(imageData, cd, fd, fault) ==
  IF fault
  THEN [fingerDetected |-> FALSE, confidence |-> 0, contour |-> None,
        cd |-> cd, fd |-> fd]
  ELSE LET fingerContour == findFingerContour(imageData)
           cd1 == IF fingerContour # None THEN cd + 1 ELSE cd
           fd1 == IF fingerContour # None
                  THEN (IF cd1 >= requiredDetections THEN TRUE ELSE fd)
                  ELSE FALSE
       IN [fingerDetected |-> fd1,
           confidence |-> (cd1 * 1000) \div requiredDetections,
           contour |-> fingerContour,
           cd |-> cd1, fd |-> fd1]

\* detectFinger gone wrong: the flag is set one detection early.
detectFinger_oneEarly(imageData, cd, fd, fault) ==
  IF fault
  THEN [fingerDetected |-> FALSE, confidence |-> 0, contour |-> None,
        cd |-> cd, fd |-> fd]
  ELSE LET fingerContour == findFingerContour(imageData)
           cd1 == IF fingerContour # None THEN cd + 1 ELSE 0
           fd1 == IF fingerContour # None
                  THEN (IF cd1 >= requiredDetections - 1 THEN TRUE ELSE fd)
                  ELSE FALSE
       IN [fingerDetected |-> fd1,
           confidence |-> (cd1 * 1000) \div requiredDetections,
           contour |-> fingerContour,
           cd |-> cd1, fd |-> fd1]

\* detectFinger gone wrong: a throw clears the flag and the count.
detectFinger_resetsOnFault(imageData, cd, fd, fault) ==
  IF fault
  THEN [fingerDetected |-> FALSE, confidence |-> 0, contour |-> None,
        cd |-> 0, fd |-> FALSE]
  ELSE LET fingerContour == findFingerContour(imageData)
           cd1 == IF fingerContour # None THEN cd + 1 ELSE 0
           fd1 == IF fingerContour # None
                  THEN (IF cd1 >= requiredDetections THEN TRUE ELSE fd)
                  ELSE FALSE
       IN [fingerDetected |-> fd1,
           confidence |-> (cd1 * 1000) \div requiredDetections,
           contour |-> fingerContour,
           cd |-> cd1, fd |-> fd1]

\* detectFinger: the returned object and the detector's fields after the call.
\* cd, fd are consecutiveDetections and fingerDetected before it; fault is
\* TRUE when a step of the try block throws.
detectFinger(imageData, cd, fd, fault) ==
  IF fault
  THEN [fingerDetected |-> FALSE, confidence |-> 0, contour |-> None,
        cd |-> cd, fd |-> fd]
  ELSE LET fingerContour == findFingerContour(imageData)
           cd1 == IF fingerContour # None THEN cd + 1 ELSE 0
           fd1 == IF fingerContour # None
                  THEN (IF cd1 >= requiredDetections THEN TRUE ELSE fd)
                  ELSE FALSE
       IN [fingerDetected |-> fd1,
           confidence |-> (cd1 * 1000) \div requiredDetections,
           contour |-> fingerContour,
           cd |-> cd1, fd |-> fd1]

-----------------------------------------------------------------------------
(* RealPPGProcessor: the buffer *)

\* The values a buffered sample can take (hundredths): avgG / 255 plus noise.
SampleValues == {50}

\* extractPPGSignal: null without a contour or when its try block throws,
\* else a sample stamped with Date.now().
extractPPGSignal(imageData, fingerContour, time, value, fault) ==
  IF fault \/ fingerContour = None
  THEN None
  ELSE Some([timestamp |-> time, value |-> value])

\* addToBuffer gone wrong: a full buffer turns the new sample away.
addToBuffer_dropNewest(buffer, ppgSignal) ==
  IF Len(buffer) >= maxBufferSize THEN buffer ELSE Append(buffer, ppgSignal)

\* addToBuffer gone wrong: the new sample goes in at the front.
addToBuffer_unshift(buffer, ppgSignal) ==
  LET pushed == <<ppgSignal>> \o buffer
  IN IF Len(pushed) > maxBufferSize THEN SubSeq(pushed, 1, maxBufferSize) ELSE pushed

\* addToBuffer: push, then shift once if the buffer is over its capacity.
addToBuffer(buffer, ppgSignal) ==
  LET pushed == Append(buffer, ppgSignal)
  IN IF Len(pushed) > maxBufferSize THEN Tail(pushed) ELSE pushed

\* updateHeartRateHistory gone wrong: a full history turns the new rate away.
updateHeartRateHistory_dropNewest(history, heartRate) ==
  IF Len(history) >= maxHistorySize THEN history ELSE Append(history, heartRate)

\* updateHeartRateHistory
updateHeartRateHistory(history, heartRate) ==
  LET pushed == Append(history, heartRate)
  IN IF Len(pushed) > maxHistorySize THEN Tail(pushed) ELSE pushed

\* updateBPHistory
updateBPHistory(history, bloodPressure) ==
  LET pushed == Append(history, bloodPressure)
  IN IF Len(pushed) > maxBPHistorySize THEN Tail(pushed) ELSE pushed

-----------------------------------------------------------------------------
(* RealPPGProcessor: the estimators *)

(* What applySignalProcessing, findPeaks and the statistics make of the    *)
(* buffered values:                                                        *)
(*   rawHR      60 / (mean peak interval) in tenths of a BPM, null with    *)
(*              fewer than two peaks                                       *)
(*   snr        calculateSNR, tenths of a dB                               *)
(*   stability  calculateStability, thousandths                            *)
(*   amplitude  calculateAmplitude (max - min), thousandths                *)
(*   stdDev     extractPulseWaveFeatures().amplitude, thousandths          *)
(* flat is a constant window (normalizeSignal makes it 0.5 throughout),    *)
(* noisy one whose SNR is negative, weak and clean ones with peaks.        *)
SignalFeatures ==
  { [name |-> "flat",  rawHR |-> None,       snr |-> 100, stability |-> 1000, amplitude |-> 0,    stdDev |-> 0],
    [name |-> "noisy", rawHR |-> None,       snr |-> -50, stability |-> 0,    amplitude |-> 1000, stdDev |-> 50],
    [name |-> "weak",  rawHR |-> Some(505),  snr |-> 15,  stability |-> 0,    amplitude |-> 1000, stdDev |-> 200],
    [name |-> "clean", rawHR |-> Some(1554), snr |-> 45,  stability |-> 900,  amplitude |-> 1000, stdDev |-> 400] }

\* The diastolic ratio 0.65 + (Math.random() - 0.5) * 0.1, thousandths.
Ratios == {600, 699}

RECURSIVE SumSeq(_)
SumSeq(seq) == IF seq = <<>> THEN 0 ELSE seq[1] + SumSeq(Tail(seq))

\* The first half of calculateHeartRate: null with fewer than two peaks,
\* else 60 / (the mean of the intervals between consecutive peaks), in
\* tenths of a BPM, rounded down.  peaks holds the peaks' timestamps in
\* milliseconds.  Math.round of the result, clamped in between to whole
\* bounds, is the same with or without the rounding down.
meanIntervalRate(peaks) ==
  IF Len(peaks) < 2 THEN None
  ELSE LET intervals == [i \in 1..(Len(peaks) - 1) |-> peaks[i + 1] - peaks[i]]
       IN Some((600000 * Len(intervals)) \div SumSeq(intervals))

\* applyAgeConstraints gone wrong: the band has no ceiling.
applyAgeConstraints_noCeiling(heartRate, age) ==
  LET band == IF age <= 1 THEN <<100, 160>>
              ELSE IF age <= 3 THEN <<80, 140>>
              ELSE IF age <= 5 THEN <<70, 120>>
              ELSE IF age <= 7 THEN <<65, 110>>
              ELSE <<60, 100>>
  IN Max(band[1] * 10, heartRate)

\* applyAgeConstraints, on a heart rate in tenths of a BPM
applyAgeConstraints(heartRate, age) ==
  LET band == IF age <= 1 THEN <<100, 160>>
              ELSE IF age <= 3 THEN <<80, 140>>
              ELSE IF age <= 5 THEN <<70, 120>>
              ELSE IF age <= 7 THEN <<65, 110>>
              ELSE <<60, 100>>
  IN Max(band[1] * 10, Min(band[2] * 10, heartRate))

\* calculateHeartRate gone wrong: the rate is cut to a whole number, not
\* rounded.
calculateHeartRate_truncates(rawHR, age) ==
  IF rawHR = None THEN None
  ELSE Some(applyAgeConstraints(rawHR[1], age) \div 10)

\* calculateHeartRate: null with fewer than two peaks, else the rounded,
\* age-constrained rate.
calculateHeartRate(rawHR, age) ==
  IF rawHR = None THEN None
  ELSE Some(Round10(applyAgeConstraints(rawHR[1], age)))

\* getAgeAdjustment
getAgeAdjustment(age) ==
  IF age <= 1 THEN -20
  ELSE IF age <= 3 THEN -15
  ELSE IF age <= 5 THEN -10
  ELSE IF age <= 7 THEN -5
  ELSE 0

\* calculateSystolicBP, in tenths of a mmHg
calculateSystolicBP(stdDev, heartRate, age) ==
  LET byRate == IF heartRate > 100 THEN 1000 + (heartRate - 100) * 3
                ELSE IF heartRate < 70 THEN 1000 - (70 - heartRate) * 2
                ELSE 1000
      byWave == IF stdDev > 300 THEN byRate + 100
                ELSE IF stdDev < 100 THEN byRate - 50
                ELSE byRate
      baseSystolic == byWave + getAgeAdjustment(age) * 10
  IN Max(700, Min(1400, baseSystolic))

\* calculateDiastolicBP: Math.round(systolic * ratio), in mmHg
calculateDiastolicBP(systolic, ratio) ==
  (systolic * ratio + 5000) \div 10000

\* applyTemperatureCompensation gone wrong: nothing is taken off below 37.0.
applyTemperatureCompensation_aboveOnly(bpValue, temp) ==
  bpValue + Max(0, (temp - 370) * 2)

\* applyTemperatureCompensation, on a pressure in tenths of a mmHg
applyTemperatureCompensation(bpValue, temp) ==
  bpValue + (temp - 370) * 2

\* calculateBloodPressure gone wrong: no guard on the heart rate (a null rate
\* counts as 0 in the comparisons and sums of calculateSystolicBP).
calculateBloodPressure_noGuard(feat, heartRate, age, temp, ratio) ==
  LET rate == IF heartRate = None THEN 0 ELSE heartRate[1]
      systolic == calculateSystolicBP(feat.stdDev, rate, age)
      diastolic == calculateDiastolicBP(systolic, ratio)
  IN Some([systolic |-> Round10(applyTemperatureCompensation(systolic, temp)),
           diastolic |-> Round10(applyTemperatureCompensation(diastolic * 10, temp))])

\* calculateBloodPressure: null without a heart rate
calculateBloodPressure(feat, heartRate, age, temp, ratio) ==
  IF heartRate = None THEN None
  ELSE LET systolic == calculateSystolicBP(feat.stdDev, heartRate[1], age)
           diastolic == calculateDiastolicBP(systolic, ratio)
       IN Some([systolic |-> Round10(applyTemperatureCompensation(systolic, temp)),
                diastolic |-> Round10(applyTemperatureCompensation(diastolic * 10, temp))])

\* calculateConfidence gone wrong: the sum is returned unclamped.
calculateConfidence_unclamped(feat, heartRate, fault) ==
  IF fault THEN 500 ELSE
  LET bySnr == IF feat.snr > snrThreshold THEN 300
               ELSE (feat.snr * 300) \div snrThreshold
      byStability == IF feat.stability > stabilityThreshold THEN 300
                     ELSE (feat.stability * 300) \div stabilityThreshold
      byAmplitude == IF feat.amplitude > amplitudeThreshold THEN 200
                     ELSE (feat.amplitude * 200) \div amplitudeThreshold
      byRate == IF heartRate # None /\ heartRate[1] >= minHeartRate
                   /\ heartRate[1] <= maxHeartRate
                THEN 200 ELSE 0
  IN bySnr + byStability + byAmplitude + byRate

\* The four terms calculateConfidence adds up, in thousandths: each is its
\* weight when the figure is over its threshold, else the figure's share of
\* the threshold times the weight; the heart rate's is all or nothing.
confidenceTerms(feat, heartRate) ==
  [snr |-> IF feat.snr > snrThreshold THEN 300
           ELSE (feat.snr * 300) \div snrThreshold,
   stability |-> IF feat.stability > stabilityThreshold THEN 300
                 ELSE (feat.stability * 300) \div stabilityThreshold,
   amplitude |-> IF feat.amplitude > amplitudeThreshold THEN 200
                 ELSE (feat.amplitude * 200) \div amplitudeThreshold,
   heartRate |-> IF heartRate # None /\ heartRate[1] >= minHeartRate
                    /\ heartRate[1] <= maxHeartRate
                 THEN 200 ELSE 0]

\* calculateConfidence, in thousandths; fault is TRUE when a step of its try
\* block throws.
calculateConfidence(feat, heartRate, fault) ==
  IF fault THEN 500 ELSE
  LET terms == confidenceTerms(feat, heartRate)
  IN Min(1000, Max(0, terms.snr + terms.stability + terms.amplitude + terms.heartRate))

\* assessSignalQuality
assessSignalQuality(confidence) ==
  IF confidence >= 800 THEN "excellent"
  ELSE IF confidence >= 600 THEN "good"
  ELSE IF confidence >= 400 THEN "fair"
  ELSE "poor"

\* EnhancedPPGProcessor.assessSignalQuality (src/App.js, lines 252-257), the
\* ladder of the processor the App component constructs.
EnhancedPPGProcessor_assessSignalQuality(confidence) ==
  IF confidence > 800 THEN "excellent"
  ELSE IF confidence > 600 THEN "good"
  ELSE IF confidence > 400 THEN "fair"
  ELSE "poor"

\* calculateVitalSigns gone wrong: its catch branch forgets the heart rates.
calculateVitalSigns_losesHistory(buffer, hrHist, bpHist, feat, age, temp, ratio, fault) ==
  IF fault = "calculateVitalSigns"
  THEN [heartRate |-> None, bloodPressure |-> None, confidence |-> 0,
        quality |-> "error", hrHist |-> <<>>, bpHist |-> bpHist]
  ELSE IF Len(buffer) < minValidSamples
  THEN [heartRate |-> None, bloodPressure |-> None, confidence |-> 0,
        quality |-> "insufficient_data", hrHist |-> hrHist, bpHist |-> bpHist]
  ELSE LET heartRate == calculateHeartRate(feat.rawHR, age)
           bloodPressure == calculateBloodPressure(feat, heartRate, age, temp, ratio)
           confidence == calculateConfidence(feat, heartRate,
                                             fault = "calculateConfidence")
           quality == assessSignalQuality(confidence)
       IN [heartRate |-> heartRate, bloodPressure |-> bloodPressure,
           confidence |-> confidence, quality |-> quality,
           hrHist |-> IF heartRate # None
                      THEN updateHeartRateHistory(hrHist, heartRate[1]) ELSE hrHist,
           bpHist |-> IF bloodPressure # None
                      THEN updateBPHistory(bpHist, bloodPressure[1]) ELSE bpHist]

\* calculateVitalSigns: the returned object and the histories after the call.
\* fault names the try block that throws, if one does: its own (before the
\* histories are updated) or calculateConfidence's.
calculateVitalSigns(buffer, hrHist, bpHist, feat, age, temp, ratio, fault) ==
  IF fault = "calculateVitalSigns"
  THEN [heartRate |-> None, bloodPressure |-> None, confidence |-> 0,
        quality |-> "error", hrHist |-> hrHist, bpHist |-> bpHist]
  ELSE IF Len(buffer) < minValidSamples
  THEN [heartRate |-> None, bloodPressure |-> None, confidence |-> 0,
        quality |-> "insufficient_data", hrHist |-> hrHist, bpHist |-> bpHist]
  ELSE LET heartRate == calculateHeartRate(feat.rawHR, age)
           bloodPressure == calculateBloodPressure(feat, heartRate, age, temp, ratio)
           confidence == calculateConfidence(feat, heartRate,
                                             fault = "calculateConfidence")
           quality == assessSignalQuality(confidence)
       IN [heartRate |-> heartRate, bloodPressure |-> bloodPressure,
           confidence |-> confidence, quality |-> quality,
           hrHist |-> IF heartRate # None
                      THEN updateHeartRateHistory(hrHist, heartRate[1]) ELSE hrHist,
           bpHist |-> IF bloodPressure # None
                      THEN updateBPHistory(bpHist, bloodPressure[1]) ELSE bpHist]

-----------------------------------------------------------------------------
(* Signal conditioning: normalizeSignal and findPeaks                      *)
(* A signal handed to normalizeSignal is held exactly, as the numerators   *)
(* num of its values over one denominator den, so that (val - min) / range *)
(* is the fraction the code computes and not a rounding of it.  A signal   *)
(* handed to findPeaks is a sequence of values in thousandths with the     *)
(* timestamps of its samples in milliseconds.                              *)

\* Math.min(...signal) and Math.max(...signal) of a non-empty signal.
MinOf(values) == CHOOSE v \in {values[i] : i \in DOMAIN values} : \A i \in DOMAIN values : v <= values[i]
MaxOf(values) == CHOOSE v \in {values[i] : i \in DOMAIN values} : \A i \in DOMAIN values : v >= values[i]

\* The greatest common divisor of two naturals.
RECURSIVE GCD(_, _)
GCD(a, b) == IF b = 0 THEN a ELSE GCD(b, a % b)

\* The greatest common divisor of g and the first n of the values.
RECURSIVE GCDOf(_, _, _)
GCDOf(values, n, g) ==
  IF n = 0 THEN g
  ELSE GCDOf(values, n - 1, GCD(g, IF values[n] < 0 THEN -values[n] ELSE values[n]))

\* The same values over the least denominator that holds them all: a
\* number has one value however its fraction is written.
Lowest(signal) ==
  LET g == GCDOf(signal.num, Len(signal.num), signal.den)
  IN [num |-> [i \in DOMAIN signal.num |-> signal.num[i] \div g], den |-> signal.den \div g]

\* normalizeSignal gone wrong: divides by the maximum instead of the range.
normalizeSignal_byMax(signal) ==
  IF signal.num = <<>> THEN signal
  ELSE LET min == MinOf(signal.num)
           max == MaxOf(signal.num)
       IN IF max - min = 0 \/ max <= 0
          THEN [num |-> [i \in DOMAIN signal.num |-> 1], den |-> 2]
          ELSE Lowest([num |-> [i \in DOMAIN signal.num |-> signal.num[i] - min],
                       den |-> max])

\* RealPPGProcessor.normalizeSignal: (val - min) / range, and 0.5 throughout
\* for a signal whose range is 0.  The empty signal maps to itself.
normalizeSignal(signal) ==
  IF signal.num = <<>> THEN signal
  ELSE LET min == MinOf(signal.num)
           max == MaxOf(signal.num)
           range == max - min
       IN IF range = 0
          THEN [num |-> [i \in DOMAIN signal.num |-> 1], den |-> 2]
          ELSE Lowest([num |-> [i \in DOMAIN signal.num |-> signal.num[i] - min],
                       den |-> range])

\* AdvancedPPGProcessor.normalizeSignal ("for display"):
\* ((val - min) / range - 0.5) * 2, and 0 throughout for a range of 0.
AdvancedPPGProcessor_normalizeSignal(signal) ==
  IF signal.num = <<>> THEN signal
  ELSE LET min == MinOf(signal.num)
           max == MaxOf(signal.num)
           range == max - min
       IN IF range = 0
          THEN [num |-> [i \in DOMAIN signal.num |-> 0], den |-> 1]
          ELSE Lowest([num |-> [i \in DOMAIN signal.num |->
                                  2 * (signal.num[i] - min) - range],
                       den |-> range])

\* findPeaks' thresholds: minPeakHeight = 0.6 and minPeakDistance = 0.3 s.
minPeakHeight == 600
minPeakDistance == 300

\* The body of findPeaks' loop from index i on, peaks being those pushed so
\* far (indices count from 1 here, from 0 in the code).
RECURSIVE findPeaksFrom(_, _, _, _)
findPeaksFrom(signal, timestamps, i, peaks) ==
  IF i > Len(signal) - 1 THEN peaks
  ELSE LET isPeak == /\ signal[i] > signal[i - 1]
                     /\ signal[i] > signal[i + 1]
                     /\ signal[i] > minPeakHeight
           farEnough == \/ peaks = <<>>
                        \/ timestamps[i] - peaks[Len(peaks)].timestamp >= minPeakDistance
           pushed == Append(peaks, [index |-> i, timestamp |-> timestamps[i],
                                    value |-> signal[i]])
       IN findPeaksFrom(signal, timestamps, i + 1,
                        IF isPeak /\ farEnough THEN pushed ELSE peaks)

\* RealPPGProcessor.findPeaks
findPeaks(signal, timestamps) == findPeaksFrom(signal, timestamps, 2, <<>>)

-----------------------------------------------------------------------------
(* RealPPGProcessor.processFrame *)

\* The try blocks whose catch branch a fault can take.
FaultPoints == {"none", "detectFinger", "extractPPGSignal", "processFrame",
                "calculateVitalSigns", "calculateConfidence"}

\* What processFrame returns.  ret names the return statement taken and
\* fault the try block that threw, if one did; a field the returned object
\* does not have is None (message: "none").  No return statement of
\* processFrame sets isValid.
NullResult(ret) ==
  [isNull |-> TRUE, ret |-> ret, fault |-> "none", fingerDetected |-> FALSE,
   heartRate |-> None, bloodPressure |-> None, confidence |-> 0,
   quality |-> "none", message |-> "none", isValid |-> None]

\* What a method called directly returned, ret naming the method: the
\* fields it has no value for are those of NullResult.
Returned(ret) == [NullResult(ret) EXCEPT !.isNull = FALSE]

NotDetectedResult ==
  [isNull |-> FALSE, ret |-> "notDetected", fault |-> "none",
   fingerDetected |-> FALSE, heartRate |-> None, bloodPressure |-> None,
   confidence |-> 0, quality |-> "poor",
   message |-> "Please place your finger properly on the camera", isValid |-> None]

FullResult(vitalSigns) ==
  [isNull |-> FALSE, ret |-> "full", fault |-> "none", fingerDetected |-> TRUE,
   heartRate |-> vitalSigns.heartRate, bloodPressure |-> vitalSigns.bloodPressure,
   confidence |-> vitalSigns.confidence, quality |-> vitalSigns.quality,
   message |-> "none", isValid |-> None]

CollectingResult(len) ==
  [isNull |-> FALSE, ret |-> "collecting", fault |-> "none", fingerDetected |-> TRUE,
   heartRate |-> None, bloodPressure |-> None,
   confidence |-> (len * 1000) \div minValidSamples,
   quality |-> "collecting", message |-> "Collecting data...", isValid |-> None]

ErrorResult ==
  [isNull |-> FALSE, ret |-> "error", fault |-> "processFrame",
   fingerDetected |-> FALSE, heartRate |-> None, bloodPressure |-> None,
   confidence |-> 0, quality |-> "error", message |-> "Processing error occurred",
   isValid |-> None]

\* The scan as the screen holds it before a result has been shown: the
\* useState defaults (README.md, 242-256).  The form's childAge and
\* temperature are empty.
InitialScreen ==
  [childAge |-> None, temperature |-> None, isScanning |-> FALSE,
   heartRate |-> None, bloodPressure |-> None, confidence |-> 0,
   quality |-> "unknown", fingerDetected |-> FALSE]

\* The throttle gone wrong: half the interval is enough.
Throttled_half(currentTime, last) == currentTime - last < processingInterval \div 2

\* The throttle: TRUE when the call is rejected.
Throttled(currentTime, last) == currentTime - last < processingInterval

\* The gate gone wrong: one sample late, one sample early.
enoughSamples_late(len) == len > minValidSamples
enoughSamples_early(len) == len >= minValidSamples - 1

\* The gate on the buffer's length: TRUE when the estimators run.
enoughSamples(len) == len >= minValidSamples

\* The no-finger branch gone wrong: it returns null; it drops the buffer.
notDetectedBranch_null(st) == [st EXCEPT !.result = NullResult("notDetected")]
notDetectedBranch_clears(st) ==
  [st EXCEPT !.buffer = <<>>, !.result = NotDetectedResult]

\* The branch taken when the detector reports no finger: st holds the fields
\* as the detector left them.
notDetectedBranch(st) == [st EXCEPT !.result = NotDetectedResult]

\* The branch taken once a sample is in hand: addToBuffer, then the
\* estimators or the progress report.
sampleBranch(st, ppgSignal, feat, age, temp, ratio, fault) ==
  LET buffer1 == addToBuffer(st.buffer, ppgSignal)
  IN IF enoughSamples(Len(buffer1))
     THEN LET vitalSigns == calculateVitalSigns(buffer1, st.hrHist, st.bpHist,
                              feat, age, temp, ratio, fault)
          IN [st EXCEPT !.buffer = buffer1,
                        !.hrHist = vitalSigns.hrHist,
                        !.bpHist = vitalSigns.bpHist,
                        !.result = [FullResult(vitalSigns) EXCEPT
                                      !.fault =
                                         IF fault \in {"calculateVitalSigns",
                                                       "calculateConfidence"}
                                         THEN fault ELSE "none"]]
     ELSE [st EXCEPT !.buffer = buffer1,
                     !.result = CollectingResult(Len(buffer1))]

\* processFrame from its await on: the fields after the call and the result.
\* imageData is what extractImageData resolved to; time is Date.now() when
\* the sample is stamped; a fault "processFrame" is a throw outside every
\* inner try block (at addToBuffer), taken by processFrame's own catch.
processFrameBody(imageData, buffer, hrHist, bpHist, cd, fd, age, temp, time, value, feat, ratio, fault) ==
  LET same == [buffer |-> buffer, hrHist |-> hrHist, bpHist |-> bpHist,
               cd |-> cd, fd |-> fd, result |-> NullResult("noImage")]
  IN IF imageData = None THEN same
     ELSE
     LET det == detectFinger(imageData[1], cd, fd, fault = "detectFinger")
         seen == [same EXCEPT !.cd = det.cd, !.fd = det.fd]
     IN IF ~det.fingerDetected
        THEN LET out == notDetectedBranch(seen)
             IN [out EXCEPT !.result.fault = IF fault = "detectFinger"
                                             THEN fault ELSE "none"]
        ELSE
        LET ppgSignal == extractPPGSignal(imageData[1], det.contour, time, value,
                                          fault = "extractPPGSignal")
        IN IF ppgSignal = None
           THEN [seen EXCEPT !.result =
                   [NullResult("noSignal") EXCEPT
                      !.fault = IF fault = "extractPPGSignal" THEN fault ELSE "none"]]
           ELSE IF fault = "processFrame"
           THEN [seen EXCEPT !.result = ErrorResult]
           ELSE sampleBranch(seen, ppgSignal[1], feat, age, temp, ratio, fault)

\* What a resumed call draws from its environment: the sample's noise, the
\* figures of the window, the diastolic ratio, and the try block that throws
\* if one does.  The ratio is drawn only when there is a heart rate to use
\* it, and the figures only when they are used: when no try block throws,
\* or calculateConfidence's does, after the heart rate and the pressures
\* have been worked out.
AnyFeature == CHOOSE feat \in SignalFeatures : feat.name = "flat"
AnyRatio == CHOOSE ratio \in Ratios : TRUE
ResumeInputs ==
  { in \in [value : SampleValues, feat : SignalFeatures, ratio : Ratios,
            fault : FaultPoints] :
      /\ in.feat.rawHR = None => in.ratio = AnyRatio
      /\ in.fault \notin {"none", "calculateConfidence"} =>
           in.feat = AnyFeature /\ in.ratio = AnyRatio }

\* The variables each group of operations leaves alone.
configVars == <<temperature, childAge>>
detectorVars == <<fingerDetected, consecutiveDetections>>
dataVars == <<signalBuffer, heartRateHistory, bpHistory>>
ghostVars == <<imageSource, arrived, classified, ui>>

\* processFrame up to its await: the throttle, then extractImageData, which
\* runs to its return before the caller is suspended.
ProcessFrameCall(frame) ==
  /\ pc = "idle"
  /\ IF Throttled(now, lastProcessTime)
     THEN /\ result' = NullResult("throttled")
          /\ op' = "throttled"
          /\ UNCHANGED <<lastProcessTime, pc, pending>>
     ELSE /\ lastProcessTime' = now
          /\ pending' = ImageDataOf(imageSource, frame)
          /\ pc' = "await"
          /\ op' = "accepted"
          /\ result' = NullResult("pending")
  /\ resetFrom' = None
  /\ args' = None
  /\ returnValue' = None
  /\ UNCHANGED <<dataVars, detectorVars, configVars, isProcessing, now, ghostVars>>

\* processFrame resumed after its await.
ProcessFrameResume(value, feat, ratio, fault) ==
  /\ pc = "await"
  /\ LET out == processFrameBody(pending, signalBuffer, heartRateHistory, bpHistory,
                                 consecutiveDetections, fingerDetected, childAge,
                                 temperature, now, value, feat, ratio, fault)
     IN /\ signalBuffer' = out.buffer
        /\ heartRateHistory' = out.hrHist
        /\ bpHistory' = out.bpHist
        /\ consecutiveDetections' = out.cd
        /\ fingerDetected' = out.fd
        /\ result' = out.result
  /\ pc' = "idle"
  /\ pending' = None
  /\ op' = "returned"
  /\ resetFrom' = None
  /\ args' = None
  /\ returnValue' = None
  /\ UNCHANGED <<configVars, isProcessing, lastProcessTime, now, ghostVars>>

-----------------------------------------------------------------------------
(* RealPPGProcessor: configuration, reset, getStats *)

\* What the caller passes to setTemperature (tenths of a degree) and to
\* setChildAge.
TemperatureInputs == {430}
AgeInputs == {10}

\* setTemperature gone wrong: no lower clamp.
clampTemperature_noFloor(temp) == Min(420, temp)

\* setTemperature
clampTemperature(temp) == Max(350, Min(420, temp))

SetTemperature(temp) ==
  /\ temperature' = clampTemperature(temp)
  /\ op' = "setTemperature"
  /\ result' = NullResult("none")
  /\ resetFrom' = None
  /\ args' = Some(temp)
  /\ returnValue' = None
  /\ UNCHANGED <<dataVars, detectorVars, childAge, isProcessing, lastProcessTime,
                 now, pc, pending, ghostVars>>

\* setChildAge
clampChildAge(age) == Max(0, Min(7, age))

SetChildAge(age) ==
  /\ childAge' = clampChildAge(age)
  /\ op' = "setChildAge"
  /\ result' = NullResult("none")
  /\ resetFrom' = None
  /\ args' = Some(age)
  /\ returnValue' = None
  /\ UNCHANGED <<dataVars, detectorVars, temperature, isProcessing, lastProcessTime,
                 now, pc, pending, ghostVars>>

\* FingerDetector.reset: the detector's fields after it
resetDetector == [fingerDetected |-> FALSE, consecutiveDetections |-> 0]

\* reset gone wrong: the blood-pressure history is forgotten.
resetFields_keepsPressures(last) ==
  [signalBuffer |-> <<>>, heartRateHistory |-> <<>>, bpHistory |-> bpHistory,
   isProcessing |-> FALSE, lastProcessTime |-> last]

\* reset: the processor's own fields after it; last is lastProcessTime
\* before it
resetFields(last) ==
  [signalBuffer |-> <<>>, heartRateHistory |-> <<>>, bpHistory |-> <<>>,
   isProcessing |-> FALSE, lastProcessTime |-> last]

Reset ==
  /\ LET after == resetFields(lastProcessTime)
     IN /\ signalBuffer' = after.signalBuffer
        /\ heartRateHistory' = after.heartRateHistory
        /\ bpHistory' = after.bpHistory
        /\ isProcessing' = after.isProcessing
        /\ lastProcessTime' = after.lastProcessTime
  /\ fingerDetected' = resetDetector.fingerDetected
  /\ consecutiveDetections' = resetDetector.consecutiveDetections
  /\ op' = "reset"
  /\ result' = NullResult("none")
  /\ resetFrom' = Some([bufferSize |-> Len(signalBuffer),
                        heartRates |-> Len(heartRateHistory),
                        pressures |-> Len(bpHistory),
                        consecutiveDetections |-> consecutiveDetections,
                        lastProcessTime |-> lastProcessTime])
  /\ args' = None
  /\ returnValue' = None
  /\ UNCHANGED <<configVars, now, pc, pending, ghostVars>>

\* getStats
getStats ==
  [bufferSize |-> Len(signalBuffer), maxBufferSize |-> maxBufferSize,
   heartRateHistory |-> heartRateHistory, bpHistory |-> bpHistory,
   temperature |-> temperature, childAge |-> childAge]

\* Date.now() moves on.
Tick(dt) ==
  /\ now + dt <= MaxTime
  /\ now' = now + dt
  /\ op' = "tick"
  /\ result' = NullResult("none")
  /\ resetFrom' = None
  /\ args' = None
  /\ returnValue' = None
  /\ UNCHANGED <<dataVars, detectorVars, configVars, isProcessing, lastProcessTime,
                 pc, pending, ghostVars>>

-----------------------------------------------------------------------------
(* The processor as constructed *)
Constructed ==
  /\ signalBuffer = <<>>
  /\ heartRateHistory = <<>>
  /\ bpHistory = <<>>
  /\ temperature = 370
  /\ childAge = 5
  /\ isProcessing = FALSE
  /\ lastProcessTime = 0
  /\ fingerDetected = FALSE
  /\ consecutiveDetections = 0

Init ==
  /\ Constructed
  /\ now = StartTime
  /\ pc = "idle"
  /\ pending = None
  /\ result = NullResult("none")
  /\ op = "constructed"
  /\ imageSource \in {"placeholder", "platform"}
  /\ resetFrom = None
  /\ arrived = <<>>
  /\ classified = <<>>
  /\ args = None
  /\ returnValue = None
  /\ ui = InitialScreen

Next ==
  \/ \E frame \in Frames : ProcessFrameCall(frame)
  \/ \E in \in ResumeInputs :
        ProcessFrameResume(in.value, in.feat, in.ratio, in.fault)
  \/ \E temp \in TemperatureInputs : SetTemperature(temp)
  \/ \E age \in AgeInputs : SetChildAge(age)
  \/ Reset
  \/ \E dt \in {TickShort, processingInterval} : Tick(dt)

Spec == Init /\ [][Next]_vars

-----------------------------------------------------------------------------
(* Direct calls of addToBuffer: SpecBuffer *)

\* The samples a direct caller hands to addToBuffer.
DirectSamples ==
  [timestamp : {StartTime, StartTime + processingInterval}, value : {49, 51}]

AddToBufferCall(ppgSignal) ==
  /\ Len(arrived) < MaxArrived
  /\ signalBuffer' = addToBuffer(signalBuffer, ppgSignal)
  /\ arrived' = Append(arrived, ppgSignal)
  /\ op' = "addToBuffer"
  /\ result' = NullResult("none")
  /\ resetFrom' = None
  /\ args' = Some(ppgSignal)
  /\ returnValue' = None
  /\ UNCHANGED <<heartRateHistory, bpHistory, detectorVars, configVars, isProcessing,
                 lastProcessTime, now, pc, pending, imageSource, classified, ui>>

NextBuffer == \E ppgSignal \in DirectSamples : AddToBufferCall(ppgSignal)

SpecBuffer == Init /\ [][NextBuffer]_vars

-----------------------------------------------------------------------------
(* Direct calls of FingerDetector.detectFinger: SpecDetector *)

\* How a call classified its frame: "positive" with a finger contour,
\* "negative" without one, "failed" when the try block threw.
Classification(imageData, fault) ==
  IF fault THEN "failed"
  ELSE IF findFingerContour(imageData) # None THEN "positive" ELSE "negative"

DetectFingerCall(imageData, fault) ==
  /\ Len(classified) < MaxClassified
  /\ LET det == detectFinger(imageData, consecutiveDetections, fingerDetected, fault)
     IN /\ consecutiveDetections' = det.cd
        /\ fingerDetected' = det.fd
        /\ result' = [Returned("detectFinger") EXCEPT
                        !.fingerDetected = det.fingerDetected,
                        !.confidence = det.confidence]
  /\ classified' = Append(classified, Classification(imageData, fault))
  /\ op' = "detectFinger"
  /\ resetFrom' = None
  /\ args' = Some(imageData)
  /\ returnValue' = None
  /\ UNCHANGED <<dataVars, configVars, isProcessing, lastProcessTime, now, pc,
                 pending, imageSource, arrived, ui>>

InitDetector == Init /\ imageSource = "platform"

NextDetector ==
  \E imageData \in ImageClasses, fault \in BOOLEAN : DetectFingerCall(imageData, fault)

SpecDetector == InitDetector /\ [][NextDetector]_vars

-----------------------------------------------------------------------------
(* Direct calls of the setters and of the estimators: SpecEstimator *)

\* What a caller may pass to setTemperature (tenths of a degree) and to
\* setChildAge: below, at, within, and above the clamps.
AnyTemperature == {340, 350, 385, 420, 430}
AnyAge == {-1, 0, 1, 3, 5, 7, 10}

\* The peaks findPeaks can report: up to MaxPeaks of them, evenly spaced (in
\* milliseconds, never less than its minPeakDistance of 0.3 s apart), the
\* first at FirstPeak.
MaxPeaks == 3
FirstPeak == 3 * processingInterval
PeakSpacings == {300, 400, 500, 543, 550, 600, 700, 750, 857, 940, 1000, 1200}
PeakTrains ==
  { [i \in 1..n |-> FirstPeak + (i - 1) * spacing] :
      n \in 0..MaxPeaks, spacing \in PeakSpacings }

\* The confidences a ladder may be asked to grade, thousandths.
Confidences == {0, 200, 399, 400, 401, 450, 599, 600, 601, 650, 799, 800, 801, 850, 1000}
Processors == {"RealPPGProcessor", "EnhancedPPGProcessor"}

\* calculateHeartRate called on a window with the given peaks.
CalculateHeartRateCall(peaks) ==
  /\ result' = [Returned("calculateHeartRate") EXCEPT
                  !.heartRate = calculateHeartRate(meanIntervalRate(peaks), childAge)]
  /\ op' = "calculateHeartRate"
  /\ args' = Some(peaks)
  /\ resetFrom' = None
  /\ returnValue' = None
  /\ UNCHANGED <<dataVars, detectorVars, configVars, isProcessing, lastProcessTime,
                 now, pc, pending, ghostVars>>

\* assessSignalQuality called on a processor of the given class.
AssessSignalQualityCall(processor, confidence) ==
  /\ result' = [Returned(processor) EXCEPT
                  !.confidence = confidence,
                  !.quality = IF processor = "RealPPGProcessor"
                              THEN assessSignalQuality(confidence)
                              ELSE EnhancedPPGProcessor_assessSignalQuality(confidence)]
  /\ op' = "assessSignalQuality"
  /\ args' = Some(confidence)
  /\ resetFrom' = None
  /\ returnValue' = None
  /\ UNCHANGED <<dataVars, detectorVars, configVars, isProcessing, lastProcessTime,
                 now, pc, pending, ghostVars>>

\* The heart rates handed to calculateConfidence and calculateBloodPressure
\* by a direct call: none, and rates under, within and over every band.
AnyHeartRate == {None, Some(10), Some(65), Some(100), Some(160), Some(250)}

\* calculateConfidence called on the figures of a signal and a heart rate;
\* returnValue holds the four terms it added up.
CalculateConfidenceCall(feat, heartRate) ==
  /\ returnValue' = Some(confidenceTerms(feat, heartRate))
  /\ result' = [Returned("calculateConfidence") EXCEPT
                  !.confidence = calculateConfidence(feat, heartRate, FALSE)]
  /\ op' = "calculateConfidence"
  /\ args' = Some([feat |-> feat, heartRate |-> heartRate])
  /\ resetFrom' = None
  /\ UNCHANGED <<dataVars, detectorVars, configVars, isProcessing, lastProcessTime,
                 now, pc, pending, imageSource, arrived, classified, ui>>

\* calculateBloodPressure called on the processor as configured; returnValue
\* holds what calculateSystolicBP and calculateDiastolicBP returned to it,
\* before the temperature compensation (tenths of a mmHg, and mmHg).
CalculateBloodPressureCall(feat, heartRate, ratio) ==
  /\ returnValue' =
       IF heartRate = None THEN None
       ELSE LET systolic == calculateSystolicBP(feat.stdDev, heartRate[1], childAge)
            IN Some([systolic |-> systolic,
                     diastolic |-> calculateDiastolicBP(systolic, ratio)])
  /\ result' = [Returned("calculateBloodPressure") EXCEPT
                  !.bloodPressure =
                     calculateBloodPressure(feat, heartRate, childAge, temperature, ratio)]
  /\ op' = "calculateBloodPressure"
  /\ args' = Some([feat |-> feat, heartRate |-> heartRate])
  /\ resetFrom' = None
  /\ UNCHANGED <<dataVars, detectorVars, configVars, isProcessing, lastProcessTime,
                 now, pc, pending, imageSource, arrived, classified, ui>>

\* A processor in the middle of a measurement: the finger has been seen for
\* requiredDetections + minValidSamples - 1 frames running, one processing
\* interval apart, and the frame just processed filled the first window and
\* gave the first estimates (the "weak" window with the lower ratio).
Measuring ==
  LET frames == requiredDetections + minValidSamples - 1
      stamp(i) == StartTime + (requiredDetections - 2 + i) * processingInterval
      weak == CHOOSE feat \in SignalFeatures : feat.name = "weak"
      heartRate == calculateHeartRate(weak.rawHR, 5)
  IN /\ signalBuffer = [i \in 1..minValidSamples |->
                          [timestamp |-> stamp(i), value |-> 50]]
     /\ heartRateHistory = <<heartRate[1]>>
     /\ bpHistory = <<calculateBloodPressure(weak, heartRate, 5, 370, 600)[1]>>
     /\ temperature = 370
     /\ childAge = 5
     /\ isProcessing = FALSE
     /\ lastProcessTime = stamp(minValidSamples)
     /\ now = stamp(minValidSamples)
     /\ fingerDetected = TRUE
     /\ consecutiveDetections = frames

InitEstimator ==
  /\ \/ Constructed /\ now = StartTime
     \/ Measuring
  /\ pc = "idle"
  /\ pending = None
  /\ result = NullResult("none")
  /\ op = "constructed"
  /\ imageSource = "platform"
  /\ resetFrom = None
  /\ arrived = <<>>
  /\ classified = <<>>
  /\ args = None
  /\ returnValue = None
  /\ ui = InitialScreen

NextEstimator ==
  \/ \E temp \in AnyTemperature : SetTemperature(temp)
  \/ \E age \in AnyAge : SetChildAge(age)
  \/ \E peaks \in PeakTrains : CalculateHeartRateCall(peaks)
  \/ \E processor \in Processors, confidence \in Confidences :
        AssessSignalQualityCall(processor, confidence)
  \/ \E feat \in SignalFeatures, heartRate \in AnyHeartRate :
        CalculateConfidenceCall(feat, heartRate)
  \/ \E feat \in SignalFeatures, heartRate \in AnyHeartRate, ratio \in Ratios :
        CalculateBloodPressureCall(feat, heartRate, ratio)

SpecEstimator == InitEstimator /\ [][NextEstimator]_vars

-----------------------------------------------------------------------------
(* Direct calls of calculateVitalSigns: SpecVitalSigns *)

\* What a call of calculateVitalSigns draws from its environment.
VitalSignsInputs ==
  { in \in ResumeInputs :
      in.fault \in {"none", "calculateVitalSigns", "calculateConfidence"} }

\* calculateVitalSigns called on the processor as it stands; args records
\* the histories the call found.
CalculateVitalSignsCall(feat, ratio, fault) ==
  /\ LET vitalSigns == calculateVitalSigns(signalBuffer, heartRateHistory, bpHistory,
                                           feat, childAge, temperature, ratio, fault)
     IN /\ heartRateHistory' = vitalSigns.hrHist
        /\ bpHistory' = vitalSigns.bpHist
        /\ result' = [Returned("calculateVitalSigns") EXCEPT
                        !.fault = fault,
                        !.heartRate = vitalSigns.heartRate,
                        !.bloodPressure = vitalSigns.bloodPressure,
                        !.confidence = vitalSigns.confidence,
                        !.quality = vitalSigns.quality]
  /\ op' = "calculateVitalSigns"
  /\ args' = Some([heartRateHistory |-> heartRateHistory, bpHistory |-> bpHistory])
  /\ resetFrom' = None
  /\ returnValue' = None
  /\ UNCHANGED <<signalBuffer, detectorVars, configVars, isProcessing,
                 lastProcessTime, now, pc, pending, ghostVars>>

NextVitalSigns ==
  \/ \E in \in VitalSignsInputs : CalculateVitalSignsCall(in.feat, in.ratio, in.fault)
  \/ Reset

SpecVitalSigns == InitEstimator /\ [][NextVitalSigns]_vars

-----------------------------------------------------------------------------
(* Direct calls of normalizeSignal and findPeaks: SpecSignal *)

\* The values of the signals handed to normalizeSignal: unevenly spaced,
\* some negative.
SignalLevels == {-1, 0, 1, 3}

\* Every signal of up to MaxSignalLength such values, the empty one and
\* the constant ones included.
NormalizeInputs ==
  { [num |-> num, den |-> 1] :
      num \in UNION { [1..n -> SignalLevels] : n \in 0..MaxSignalLength } }

\* The classes whose normalizeSignal is called.
NormalizingProcessors == {"RealPPGProcessor", "AdvancedPPGProcessor"}

\* normalizeSignal called on a processor of the given class.
NormalizeSignalCall(processor, signal) ==
  /\ returnValue' = Some(IF processor = "RealPPGProcessor"
                         THEN normalizeSignal(signal)
                         ELSE AdvancedPPGProcessor_normalizeSignal(signal))
  /\ result' = Returned(processor)
  /\ op' = "normalizeSignal"
  /\ args' = Some(signal)
  /\ resetFrom' = None
  /\ UNCHANGED <<dataVars, detectorVars, configVars, isProcessing, lastProcessTime,
                 now, pc, pending, imageSource, arrived, classified, ui>>

\* The signals handed to findPeaks (thousandths): a baseline of 0.2 with up
\* to two samples at 0.9 and, in half of them, the middle sample at 0.5,
\* which is a local maximum under minPeakHeight.  Samples next to each other
\* at 0.9 make a plateau; the first and the last sample can be the high ones.
PeakSignals ==
  LET positions == 1..PeakSignalLength
  IN { [i \in positions |-> IF i \in high THEN 900 ELSE IF i \in mid THEN 500 ELSE 200] :
         high \in { h \in SUBSET positions : Cardinality(h) <= 2 },
         mid \in { {}, {PeakSignalLength \div 2} } }

\* The timestamps of n buffered samples one processing interval apart.
SampleTimes(n) == [i \in 1..n |-> StartTime + i * processingInterval]

\* findPeaks called on a signal and the timestamps of its samples.
FindPeaksCall(signal) ==
  /\ returnValue' = Some(findPeaks(signal, SampleTimes(Len(signal))))
  /\ result' = Returned("findPeaks")
  /\ op' = "findPeaks"
  /\ args' = Some([signal |-> signal, timestamps |-> SampleTimes(Len(signal))])
  /\ resetFrom' = None
  /\ UNCHANGED <<dataVars, detectorVars, configVars, isProcessing, lastProcessTime,
                 now, pc, pending, imageSource, arrived, classified, ui>>

\* A signal is normalized afresh or, after a normalizeSignal call, what
\* that call returned is normalized again.
NextSignal ==
  \/ \E processor \in NormalizingProcessors,
        signal \in NormalizeInputs
                     \cup (IF op = "normalizeSignal" THEN {returnValue[1]} ELSE {}) :
        NormalizeSignalCall(processor, signal)
  \/ \E signal \in PeakSignals : FindPeaksCall(signal)

SpecSignal == InitDetector /\ [][NextSignal]_vars

-----------------------------------------------------------------------------
(* The app's scan loop around the processor (README.md): SpecApp *)

\* What the user can type into the form: nothing, or a temperature in
\* tenths of a degree and an age.
FormTemperatures == {None, Some(385)}
FormAges == {None, Some(7)}

\* parseFloat(temperature) || 37.0 and parseInt(childAge) || 5
formTemperature(screen) == IF screen.temperature = None THEN 370 ELSE screen.temperature[1]
formChildAge(screen) == IF screen.childAge = None THEN 5 ELSE screen.childAge[1]

\* Whether JavaScript takes a field for true in a condition: a field the
\* object does not have is undefined and counts as false.
Truthy(field) == field # None /\ field[1] = TRUE

\* The form filled in while no scan is running.
EnterForm(temp, age) ==
  /\ ~ui.isScanning
  /\ ui' = [ui EXCEPT !.temperature = temp, !.childAge = age]
  /\ op' = "enterForm"
  /\ result' = NullResult("none")
  /\ resetFrom' = None
  /\ args' = None
  /\ returnValue' = None
  /\ UNCHANGED <<dataVars, detectorVars, configVars, isProcessing, lastProcessTime,
                 now, pc, pending, imageSource, arrived, classified>>

\* startScan: the screen's figures cleared, the processor reset and
\* configured from the form.
StartScan ==
  /\ ~ui.isScanning
  /\ ui' = [InitialScreen EXCEPT !.temperature = ui.temperature,
                                 !.childAge = ui.childAge,
                                 !.isScanning = TRUE]
  /\ LET after == resetFields(lastProcessTime)
     IN /\ signalBuffer' = after.signalBuffer
        /\ heartRateHistory' = after.heartRateHistory
        /\ bpHistory' = after.bpHistory
        /\ isProcessing' = after.isProcessing
        /\ lastProcessTime' = after.lastProcessTime
  /\ fingerDetected' = resetDetector.fingerDetected
  /\ consecutiveDetections' = resetDetector.consecutiveDetections
  /\ temperature' = clampTemperature(formTemperature(ui))
  /\ childAge' = clampChildAge(formChildAge(ui))
  /\ op' = "startScan"
  /\ result' = NullResult("none")
  /\ resetFrom' = None
  /\ args' = None
  /\ returnValue' = None
  /\ UNCHANGED <<now, pc, pending, imageSource, arrived, classified>>

\* stopScan
StopScan ==
  /\ ui.isScanning
  /\ ui' = [ui EXCEPT !.isScanning = FALSE]
  /\ op' = "stopScan"
  /\ result' = NullResult("none")
  /\ resetFrom' = None
  /\ args' = None
  /\ returnValue' = None
  /\ UNCHANGED <<dataVars, detectorVars, configVars, isProcessing, lastProcessTime,
                 now, pc, pending, imageSource, arrived, classified>>

\* What processVideoFrame makes of the screen given what processFrame
\* returned: the figures are stored when result.isValid is true, the
\* finger flag is cleared when there is a result without it, and a null
\* result changes nothing.
showResult(screen, res) ==
  IF ~res.isNull /\ Truthy(res.isValid)
  THEN [screen EXCEPT !.heartRate = res.heartRate,
                      !.bloodPressure = res.bloodPressure,
                      !.confidence = res.confidence,
                      !.quality = res.quality,
                      !.fingerDetected = TRUE]
  ELSE IF ~res.isNull /\ ~Truthy(res.isValid)
  THEN [screen EXCEPT !.fingerDetected = FALSE]
  ELSE screen

\* processVideoFrame, run by the scan's timer one processing interval after
\* the last: the picture taken, the processor configured from the form,
\* processFrame awaited and its result shown.
ProcessVideoFrame(frame, value, feat, ratio, fault) ==
  /\ ui.isScanning
  /\ pc = "idle"
  /\ now + processingInterval <= MaxTime
  /\ now' = now + processingInterval
  /\ temperature' = clampTemperature(formTemperature(ui))
  /\ childAge' = clampChildAge(formChildAge(ui))
  /\ IF Throttled(now', lastProcessTime)
     THEN /\ result' = NullResult("throttled")
          /\ ui' = showResult(ui, result')
          /\ UNCHANGED <<dataVars, detectorVars, lastProcessTime>>
     ELSE LET ran == processFrameBody(ImageDataOf(imageSource, frame), signalBuffer,
                                      heartRateHistory, bpHistory,
                                      consecutiveDetections, fingerDetected,
                                      childAge', temperature', now', value, feat,
                                      ratio, fault)
          IN /\ lastProcessTime' = now'
             /\ signalBuffer' = ran.buffer
             /\ heartRateHistory' = ran.hrHist
             /\ bpHistory' = ran.bpHist
             /\ consecutiveDetections' = ran.cd
             /\ fingerDetected' = ran.fd
             /\ result' = ran.result
             /\ ui' = showResult(ui, ran.result)
  /\ op' = "processVideoFrame"
  /\ resetFrom' = None
  /\ args' = Some(frame)
  /\ returnValue' = None
  /\ UNCHANGED <<isProcessing, pc, pending, imageSource, arrived, classified>>

NextApp ==
  \/ \E temp \in FormTemperatures, age \in FormAges : EnterForm(temp, age)
  \/ StartScan
  \/ StopScan
  \/ \E frame \in Frames, in \in ResumeInputs :
        ProcessVideoFrame(frame, in.value, in.feat, in.ratio, in.fault)

SpecApp == InitEstimator /\ [][NextApp]_vars

-----------------------------------------------------------------------------
(* Properties *)

LastN(seq, n) == SubSeq(seq, Len(seq) - n + 1, Len(seq))

\* C1 (SpecBuffer): after any sequence of addToBuffer calls the buffer is no
\* longer than its capacity and holds the most recent samples handed to it,
\* in arrival order: all of them up to the capacity, the last maxBufferSize
\* of them beyond it.
C1_BufferBound ==
  /\ Len(signalBuffer) <= maxBufferSize
  /\ signalBuffer = LastN(arrived, Min(Len(arrived), maxBufferSize))

\* More samples have arrived than the buffer holds, so the oldest are gone.
C1_Witness ==
  /\ Len(arrived) > maxBufferSize + 1
  /\ Len(signalBuffer) = maxBufferSize
  /\ signalBuffer[1] # arrived[1]

\* The run of "positive" classifications that ends the log, calls whose try
\* block threw aside.
RECURSIVE TrailingPositives(_)
TrailingPositives(log) ==
  IF log = <<>> THEN 0
  ELSE LET last == log[Len(log)]
           rest == SubSeq(log, 1, Len(log) - 1)
       IN IF last = "failed" THEN TrailingPositives(rest)
          ELSE IF last = "positive" THEN 1 + TrailingPositives(rest)
          ELSE 0

\* C2 (SpecDetector): fingerDetected is true exactly when the frames
\* classified last were requiredDetections or more positives in a row, and
\* right after a negative classification consecutiveDetections is 0 and
\* fingerDetected is false.
C2_Hysteresis ==
  /\ fingerDetected <=> TrailingPositives(classified) >= requiredDetections
  /\ TrailingPositives(classified) = 0 =>
       consecutiveDetections = 0 /\ ~fingerDetected

\* Four positives, a negative, then five positives: detected on the last.
C2_Witness ==
  /\ classified = <<"positive", "positive", "positive", "positive", "negative",
                    "positive", "positive", "positive", "positive", "positive">>
  /\ fingerDetected

FullQualities == {"poor", "fair", "good", "excellent", "error"}

\* C3 as stated: every call that returns a result and leaves the buffer
\* short of minValidSamples reports 'collecting' and no heart rate.
C3_AsStated ==
  (op = "returned" /\ ~result.isNull /\ Len(signalBuffer) < minValidSamples)
    => (result.quality = "collecting" /\ result.heartRate = None)

\* C3, amended: no call that leaves the buffer short of minValidSamples
\* returns a heart rate; a call that appends a sample reports 'collecting'
\* with no heart rate while the buffer is short of minValidSamples, and runs
\* the estimators (a full result) from the minValidSamples-th sample on.
C3_Gating ==
  [][ op' = "returned" =>
        /\ Len(signalBuffer') < minValidSamples => result'.heartRate = None
        /\ signalBuffer' # signalBuffer =>
             IF Len(signalBuffer') < minValidSamples
             THEN result'.quality = "collecting" /\ result'.heartRate = None
             ELSE result'.ret = "full" /\ result'.quality \in FullQualities ]_vars

\* The call that appended the minValidSamples-th sample returned a full result.
C3_Witness ==
  /\ op = "returned"
  /\ result.ret = "full"
  /\ Len(signalBuffer) = minValidSamples

C5_ResetClears ==
  op = "reset" =>
    /\ signalBuffer = <<>> /\ heartRateHistory = <<>> /\ bpHistory = <<>>
    /\ ~fingerDetected /\ consecutiveDetections = 0
    /\ getStats.bufferSize = 0
    /\ getStats.heartRateHistory = <<>> /\ getStats.bpHistory = <<>>

\* reset() ran on a processor with samples, both histories and a detected
\* finger.
C5_Witness ==
  /\ op = "reset"
  /\ resetFrom # None
  /\ resetFrom[1].bufferSize > 0
  /\ resetFrom[1].heartRates > 0
  /\ resetFrom[1].pressures > 0
  /\ resetFrom[1].consecutiveDetections >= requiredDetections

\* C6: after reset() between two processFrame calls the processor's session
\* state, lastProcessTime included, is that of a new processor.
C6_FreshAfterReset ==
  (op = "reset" /\ pc = "idle") =>
    /\ signalBuffer = <<>> /\ heartRateHistory = <<>> /\ bpHistory = <<>>
    /\ ~fingerDetected /\ consecutiveDetections = 0
    /\ isProcessing = FALSE
    /\ lastProcessTime = 0

\* C7: a call whose detector reports no finger returns a result with
\* fingerDetected false and leaves the buffer and both histories as they
\* were.
C7_NotDetected ==
  [][ (/\ op' = "returned"
       /\ pending # None
       /\ (result'.fault = "detectFinger" \/ ~fingerDetected')) =>
        /\ ~result'.isNull
        /\ result'.fingerDetected = FALSE
        /\ UNCHANGED dataVars ]_vars

\* The finger was lost with samples in the buffer.
C7_Witness ==
  /\ op = "returned"
  /\ result.ret = "notDetected"
  /\ ~fingerDetected
  /\ Len(signalBuffer) > 0

\* C8: a call made less than processingInterval after the last accepted one
\* returns null at once and changes no field of the processor; hence an
\* accepted call comes at least processingInterval after the one before.
C8_Throttle ==
  [][ op' \in {"throttled", "accepted"} =>
        IF now - lastProcessTime < processingInterval
        THEN /\ result'.isNull
             /\ op' = "throttled"
             /\ UNCHANGED <<processorState, pc, pending>>
        ELSE /\ op' = "accepted"
             /\ lastProcessTime' = now
             /\ lastProcessTime' - lastProcessTime >= processingInterval ]_vars

\* A call was dropped two thirds of an interval after an accepted one, with
\* samples in the buffer.
C8_Witness ==
  /\ op = "throttled"
  /\ now - lastProcessTime = 2 * TickShort
  /\ Len(signalBuffer) > 0

\* C9: the confidence of every result returned is between 0 and 1.
C9_ConfidenceRange ==
  ~result.isNull => (result.confidence >= 0 /\ result.confidence <= 1000)

\* A full result of a noisy window: the sub-scores sum to less than 0.
C9_Witness ==
  /\ result.ret = "full"
  /\ result.fault = "none"
  /\ result.quality = "poor"
  /\ result.confidence = 0

\* C10: the quality of every result returned is one of collecting, poor,
\* fair, good, excellent, error.
C10_QualityEnum ==
  ~result.isNull =>
    result.quality \in {"collecting", "poor", "fair", "good", "excellent", "error"}

\* A full result, graded 'fair', on the first window long enough.
C10_Witness ==
  /\ result.ret = "full"
  /\ Len(signalBuffer) = minValidSamples
  /\ result.quality = "fair"

\* The heart-rate band of an age, as the glossary has it: <<lowest, highest>>.
AgeBand(age) ==
  IF age <= 1 THEN <<100, 160>>
  ELSE IF age <= 3 THEN <<80, 140>>
  ELSE IF age <= 5 THEN <<70, 120>>
  ELSE <<65, 110>>

\* The spacing of a train of two or more evenly spaced peaks, milliseconds.
Spacing(peaks) == peaks[2] - peaks[1]

EvenlySpaced(peaks) ==
  /\ Len(peaks) >= 2
  /\ \A i \in 1..(Len(peaks) - 1) : peaks[i + 1] - peaks[i] = Spacing(peaks)

\* C11 (SpecEstimator): every heart rate calculateHeartRate returns lies in
\* the band of the stored child age, which is itself within 0..7; an
\* estimate of 60 / spacing above the band is reported as the band's highest
\* rate and one below it as its lowest; setChildAge(10) stores 7.
C11_AgeBand ==
  /\ childAge \in 0..7
  /\ (op = "setChildAge" /\ args = Some(10)) => childAge = 7
  /\ (op = "calculateHeartRate" /\ result.heartRate # None) =>
       LET band == AgeBand(childAge)
           spacing == Spacing(args[1])
           heartRate == result.heartRate[1]
       IN /\ heartRate >= band[1] /\ heartRate <= band[2]
          /\ 60000 > band[2] * spacing => heartRate = band[2]
          /\ 60000 < band[1] * spacing => heartRate = band[1]

\* At age 1, peaks 0.3 s apart (200 BPM) are reported as 160.
C11_Witness ==
  /\ op = "calculateHeartRate"
  /\ childAge = 1
  /\ EvenlySpaced(args[1]) /\ Spacing(args[1]) = 300
  /\ result.heartRate = Some(160)

\* The ladder as stated: inclusive lower bounds.
Ladder(confidence) ==
  IF confidence >= 800 THEN "excellent"
  ELSE IF confidence >= 600 THEN "good"
  ELSE IF confidence >= 400 THEN "fair"
  ELSE "poor"

\* C12 (SpecEstimator): every assessSignalQuality grades a confidence of 0.8
\* or more 'excellent', of 0.6 or more 'good', of 0.4 or more 'fair' and
\* anything lower 'poor', the values 0.8, 0.6 and 0.4 themselves taking the
\* higher label.
C12_Ladder ==
  op = "assessSignalQuality" => result.quality = Ladder(args[1])

\* The nearest value within lo..hi.
Nearest(lo, hi, x) == IF x < lo THEN lo ELSE IF x > hi THEN hi ELSE x

\* C13 (SpecEstimator): the stored temperature is always within 35..42
\* degrees and the stored age within 0..7; each setter stores the nearest
\* value within its range and changes nothing else of the processor.
C13_Clamping ==
  /\ [](temperature \in 350..420 /\ childAge \in 0..7)
  /\ [][ /\ op' = "setTemperature" =>
              /\ temperature' = Nearest(350, 420, args'[1])
              /\ UNCHANGED <<dataVars, detectorVars, childAge, isProcessing,
                             lastProcessTime, pc, pending>>
        /\ op' = "setChildAge" =>
              /\ childAge' = Nearest(0, 7, args'[1])
              /\ UNCHANGED <<dataVars, detectorVars, temperature, isProcessing,
                             lastProcessTime, pc, pending>> ]_vars

\* A temperature below the range was stored as 35 degrees in the middle of
\* a measurement.
C13_Witness ==
  /\ op = "setTemperature"
  /\ args = Some(340)
  /\ temperature = 350
  /\ Len(signalBuffer) > 0
  /\ heartRateHistory # <<>>

C14_PressureNeedsRate ==
  [][ (op' = "returned" /\ result'.ret = "full" /\ result'.heartRate = None) =>
        /\ result'.bloodPressure = None
        /\ bpHistory' = bpHistory ]_vars

\* A full result with neither, returned when earlier frames had given both.
C14_Witness ==
  /\ op = "returned"
  /\ result.ret = "full"
  /\ result.fault = "none"
  /\ result.heartRate = None
  /\ result.bloodPressure = None
  /\ bpHistory # <<>>

\* C15: a call in which a stage threw returns a result with quality 'error',
\* confidence 0 and a message.
C15_FaultSurfaced ==
  (op = "returned" /\ result.fault # "none") =>
    /\ ~result.isNull
    /\ result.quality = "error"
    /\ result.confidence = 0
    /\ result.message # "none"

\* C16 as stated: a call in which a stage threw leaves the buffer, both
\* histories and the detector as they were before the call.
C16_AsStated ==
  [][ (op' = "returned" /\ result'.fault # "none") =>
        UNCHANGED <<dataVars, detectorVars>> ]_vars

\* C16, amended: the stage that throws leaves the buffer, the histories and
\* the detector as it found them, and what the stages before it did stays
\* done.  A throw in detectFinger leaves all of them as before the call; a
\* throw in extractPPGSignal, or at addToBuffer, leaves the buffer and the
\* histories as before the call, the detector having counted the frame; a
\* throw in calculateVitalSigns leaves the histories as before the call, the
\* sample having been appended to the buffer; calculateConfidence touches
\* none of them, so the call goes on to record its estimates.
C16_StageAtomic ==
  [][ op' = "returned" =>
        /\ result'.fault = "detectFinger" => UNCHANGED <<dataVars, detectorVars>>
        /\ result'.fault \in {"extractPPGSignal", "processFrame"} =>
             /\ UNCHANGED dataVars
             /\ consecutiveDetections' = consecutiveDetections + 1
             /\ fingerDetected'
        /\ result'.fault = "calculateVitalSigns" =>
             /\ UNCHANGED <<heartRateHistory, bpHistory>>
             /\ signalBuffer' # signalBuffer
             /\ signalBuffer'[Len(signalBuffer')].timestamp = now
             /\ consecutiveDetections' = consecutiveDetections + 1
        /\ result'.fault = "calculateConfidence" =>
             /\ signalBuffer' # signalBuffer
             /\ result'.heartRate # None =>
                  heartRateHistory'[Len(heartRateHistory')] = result'.heartRate[1]
             /\ result'.heartRate = None => UNCHANGED <<heartRateHistory, bpHistory>>
    ]_vars

\* calculateVitalSigns threw on a processor that had estimates in both
\* histories.
C16_Witness ==
  /\ op = "returned"
  /\ result.fault = "calculateVitalSigns"
  /\ heartRateHistory # <<>>
  /\ bpHistory # <<>>
  /\ Len(signalBuffer) >= minValidSamples

\* The values within half a unit of the mean of the last k of a history.
TrailingMeans(history, k) ==
  LET total == SumSeq(LastN(history, k))
  IN { v \in 0..300 : 2 * k * v >= 2 * total - k /\ 2 * k * v <= 2 * total + k }

\* The medians of a history: its middle value, or the values within half a
\* unit of the mean of its two middle values.
Medians(history) ==
  LET n == Len(history)
      sorted == CHOOSE seq \in [1..n -> {history[i] : i \in 1..n}] :
                  /\ \A i \in 1..(n - 1) : seq[i] <= seq[i + 1]
                  /\ \A v \in {history[i] : i \in 1..n} :
                       Cardinality({i \in 1..n : seq[i] = v})
                         = Cardinality({i \in 1..n : history[i] = v})
  IN IF n % 2 = 1 THEN {sorted[(n + 1) \div 2]}
     ELSE TrailingMeans(<<sorted[n \div 2], sorted[n \div 2 + 1]>>, 2)

\* C18: the heart rate of a full result is the median of the heart-rate
\* history, the estimate of this frame included, or the mean of its last
\* few entries.
C18_Smoothed ==
  (op = "returned" /\ result.ret = "full" /\ result.heartRate # None) =>
    result.heartRate[1] \in
      Medians(heartRateHistory)
        \cup UNION { TrailingMeans(heartRateHistory, k) : k \in 2..Len(heartRateHistory) }

\* What a bounded history becomes when an estimate is recorded.
Recorded(history, estimate, capacity) ==
  LET all == Append(history, estimate)
  IN LastN(all, Min(Len(all), capacity))

\* C19 (SpecVitalSigns): the heart-rate history never holds more than maxHistorySize entries
\* nor the blood-pressure history more than maxBPHistorySize; a call that
\* returns an estimate appends it, the oldest entry going when the history
\* is full, a call that returns none leaves the history alone, reset()
\* empties both, and nothing else changes them.
C19_Histories ==
  /\ [](/\ Len(heartRateHistory) <= maxHistorySize
        /\ Len(bpHistory) <= maxBPHistorySize)
  /\ [][ IF op' = "reset"
         THEN heartRateHistory' = <<>> /\ bpHistory' = <<>>
         ELSE IF op' \in {"returned", "calculateVitalSigns"}
         THEN /\ heartRateHistory' =
                   IF result'.heartRate # None
                   THEN Recorded(heartRateHistory, result'.heartRate[1], maxHistorySize)
                   ELSE heartRateHistory
              /\ bpHistory' =
                   IF result'.bloodPressure # None
                   THEN Recorded(bpHistory, result'.bloodPressure[1], maxBPHistorySize)
                   ELSE bpHistory
         ELSE UNCHANGED <<heartRateHistory, bpHistory>> ]_vars

\* An estimate was recorded in histories that were full: the oldest entry
\* of each went and the new one came last.
C19_Witness ==
  /\ op = "calculateVitalSigns"
  /\ result.heartRate # None
  /\ Len(args[1].heartRateHistory) = maxHistorySize
  /\ Len(args[1].bpHistory) = maxBPHistorySize
  /\ heartRateHistory = Append(Tail(args[1].heartRateHistory), result.heartRate[1])
  /\ bpHistory = Append(Tail(args[1].bpHistory), result.bloodPressure[1])
  /\ heartRateHistory[1] # args[1].heartRateHistory[1]

\* C20 (SpecDetector): the confidence detectFinger returns is
\* consecutiveDetections / requiredDetections held within 0..1.
C20_DetectorConfidence ==
  (op = "detectFinger" /\ classified[Len(classified)] # "failed") =>
    result.confidence
      = Nearest(0, 1000, (consecutiveDetections * 1000) \div requiredDetections)

\* C22 (Spec): the buffer holds its samples in the order their frames
\* were submitted.  Each sample carries the clock reading of the moment its
\* frame was processed, so timestamps never decrease from one sample to
\* the next; a returning call either leaves the buffer alone or puts its own
\* sample, stamped with the present time, behind every sample already kept.
C22_TemporalOrder ==
  /\ [](\A i \in 1..Len(signalBuffer) - 1 :
          signalBuffer[i].timestamp <= signalBuffer[i + 1].timestamp)
  /\ [][op' = "returned" =>
          \/ signalBuffer' = signalBuffer
          \/ /\ signalBuffer'[Len(signalBuffer')].timestamp = now
             /\ LET kept == Len(signalBuffer') - 1
                IN SubSeq(signalBuffer', 1, kept) = LastN(signalBuffer, kept)]_vars

\* The buffer is full of samples taken at three different times, the
\* newest last, and the call that just returned added the newest one.
C22_Witness ==
  /\ op = "returned"
  /\ Len(signalBuffer) = maxBufferSize
  /\ signalBuffer[1].timestamp < signalBuffer[2].timestamp
  /\ signalBuffer[2].timestamp < signalBuffer[maxBufferSize].timestamp
  /\ signalBuffer[maxBufferSize].timestamp = now

\* Two exactly held signals are the same signal.
SameSignal(a, b) ==
  /\ Len(a.num) = Len(b.num)
  /\ \A i \in DOMAIN a.num : a.num[i] * b.den = b.num[i] * a.den

\* What normalizeSignal returned is the signal it was given brought into
\* lo..1 (lo being 0 or -1): a signal that is not constant has its minimum
\* at lo and its maximum at 1 exactly, a constant one is at the middle
\* of lo..1 throughout, and a signal that already had its minimum at lo and
\* its maximum at 1 comes back as it was.
NormalizedInto(lo) ==
  LET x == args[1]
      y == returnValue[1]
  IN /\ Len(y.num) = Len(x.num)
     /\ y.den > 0
     /\ x.num # <<>> =>
          IF MinOf(x.num) = MaxOf(x.num)
          THEN \A i \in DOMAIN y.num : 2 * y.num[i] = (lo + 1) * y.den
          ELSE /\ \A i \in DOMAIN y.num : lo * y.den <= y.num[i] /\ y.num[i] <= y.den
               /\ MinOf(y.num) = lo * y.den
               /\ MaxOf(y.num) = y.den
               /\ \A i, j \in DOMAIN x.num : x.num[i] <= x.num[j] <=> y.num[i] <= y.num[j]
     /\ (x.num # <<>> /\ MinOf(x.num) = lo * x.den /\ MaxOf(x.num) = x.den) =>
          SameSignal(y, x)

\* C21 as stated (SpecSignal): normalizeSignal maps every non-constant
\* signal into [0,1] with minimum exactly 0 and maximum exactly 1, returns an
\* already-normalized signal as it was, and maps a constant signal to a
\* constant mid-value.
C21_AsStated == op = "normalizeSignal" => NormalizedInto(0)

\* C21 (SpecSignal): RealPPGProcessor.normalizeSignal maps every
\* non-constant signal into [0,1] with minimum exactly 0 and maximum exactly
\* 1 and a constant signal to 0.5 throughout; AdvancedPPGProcessor's maps
\* into [-1,1] with minimum exactly -1 and maximum exactly 1 and a constant
\* signal to 0 throughout.  Each returns a signal it has already normalized
\* as it was, and neither divides by zero.
C21_Normalized ==
  op = "normalizeSignal" =>
    NormalizedInto(IF result.ret = "RealPPGProcessor" THEN 0 ELSE -1)

\* RealPPGProcessor.normalizeSignal was handed a signal that it had
\* normalized itself, one with a value strictly between 0 and 1, and
\* returned it unchanged.
C21_Witness ==
  /\ op = "normalizeSignal"
  /\ result.ret = "RealPPGProcessor"
  /\ args[1].num # <<>>
  /\ args[1].den > 1
  /\ MinOf(args[1].num) = 0
  /\ MaxOf(args[1].num) = args[1].den
  /\ \E i \in DOMAIN args[1].num : 0 < args[1].num[i] /\ args[1].num[i] < args[1].den
  /\ returnValue[1] = args[1]

\* C23 (SpecSignal): every peak findPeaks returns is an interior sample
\* strictly greater than both its neighbours and above the threshold, and
\* two consecutive returned peaks are at least 0.4 s apart, which is 12
\* samples at 30 Hz.
C23_PeakDetection ==
  op = "findPeaks" =>
    LET signal == args[1].signal
        peaks == returnValue[1]
    IN /\ \A k \in DOMAIN peaks :
            /\ peaks[k].index \in 2..Len(signal) - 1
            /\ signal[peaks[k].index] > signal[peaks[k].index - 1]
            /\ signal[peaks[k].index] > signal[peaks[k].index + 1]
            /\ signal[peaks[k].index] > minPeakHeight
       /\ \A k \in 1..Len(peaks) - 1 :
            peaks[k + 1].timestamp - peaks[k].timestamp >= (12 * 1000) \div 30

\* C24 (SpecEstimator): the confidence calculateConfidence returns is the
\* sum of four terms that each lie within their weight: SNR in [0, 0.3],
\* stability in [0, 0.3], amplitude in [0, 0.2] and heart-rate validity
\* either 0 or 0.2.
C24_Composition ==
  op = "calculateConfidence" =>
    LET terms == returnValue[1]
    IN /\ terms.snr \in 0..300
       /\ terms.stability \in 0..300
       /\ terms.amplitude \in 0..200
       /\ terms.heartRate \in {0, 200}
       /\ result.confidence
            = terms.snr + terms.stability + terms.amplitude + terms.heartRate

\* C25 (SpecEstimator): calculateSystolicBP's value is within 70..140 mmHg
\* before the compensation; the compensation is 2 mmHg per degree of
\* temperature - 37.0, taken off below 37.0 as it is added above, and lies
\* within -4..+10 mmHg; each reported pressure is its uncompensated value
\* plus the compensation, rounded to a whole mmHg.
C25_Compensation ==
  (op = "calculateBloodPressure" /\ result.bloodPressure # None) =>
    LET uncompensated == returnValue[1]
        reported == result.bloodPressure[1]
        compensation == 2 * (temperature - 370)
    IN /\ uncompensated.systolic \in 700..1400
       /\ compensation \in -40..100
       /\ reported.systolic = Round10(uncompensated.systolic + compensation)
       /\ reported.diastolic = Round10(uncompensated.diastolic * 10 + compensation)

\* A systolic value held at its floor of 70 was reported 4 mmHg lower at
\* 35.0 degrees, and so was the diastolic value.
C25_Witness ==
  /\ op = "calculateBloodPressure"
  /\ result.bloodPressure # None
  /\ temperature = 350
  /\ args[1].heartRate = Some(10)
  /\ returnValue[1].systolic = 700
  /\ result.bloodPressure[1].systolic = 66
  /\ result.bloodPressure[1].diastolic = returnValue[1].diastolic - 4

\* C29 as stated (SpecDetector): the fingerDetected value detectFinger
\* returns equals the detector's stored flag after the call, also when an
\* internal step throws, and a call that throws breaks the run of
\* consecutive detections as a negative classification does.
C29_AsStated ==
  op = "detectFinger" =>
    /\ result.fingerDetected = fingerDetected
    /\ classified[Len(classified)] = "failed" => consecutiveDetections = 0

\* C29 (SpecDetector): the fingerDetected value detectFinger returns equals
\* the detector's stored flag after the call whenever the call classifies
\* its frame; a call in which a step throws returns false and leaves the
\* stored flag and the count of consecutive detections as they were.
C29_ReturnedFlag ==
  [][op' = "detectFinger" =>
       IF classified'[Len(classified')] = "failed"
       THEN /\ ~result'.fingerDetected
            /\ UNCHANGED <<fingerDetected, consecutiveDetections>>
       ELSE result'.fingerDetected = fingerDetected']_vars

\* A call threw while the finger was detected: it returned false, the
\* stored flag is still true and the count still at its requirement.
C29_Witness ==
  /\ op = "detectFinger"
  /\ classified[Len(classified)] = "failed"
  /\ ~result.fingerDetected
  /\ fingerDetected
  /\ consecutiveDetections >= requiredDetections

\* C26 (Spec): the buffer is gated on the detector.  A step changes the
\* buffer only by reset() emptying it or by a returning call appending one
\* sample, and a call appends only when the detector classified its frame
\* positive and that made the count of consecutive positives 5 or more; the
\* count starts from 0 at construction and again after reset() and after a
\* negative frame, so the first four positive frames after any of these
\* return not-detected and append nothing.
C26_Gated ==
  /\ [][signalBuffer' # signalBuffer =>
          \/ op' = "reset" /\ signalBuffer' = <<>>
          \/ /\ op' = "returned"
             /\ result'.fault # "detectFinger"
             /\ pending # None /\ findFingerContour(pending[1]) # None
             /\ consecutiveDetections' = consecutiveDetections + 1
             /\ consecutiveDetections' >= requiredDetections
             /\ Len(signalBuffer') <= Len(signalBuffer) + 1]_vars
  /\ [][(op' = "returned" /\ pending # None /\ result'.fault # "detectFinger") =>
          IF findFingerContour(pending[1]) = None
          THEN consecutiveDetections' = 0 /\ result' = NotDetectedResult
          ELSE /\ consecutiveDetections' = consecutiveDetections + 1
               /\ consecutiveDetections' < requiredDetections =>
                    result' = NotDetectedResult /\ signalBuffer' = signalBuffer]_vars
  /\ [][op' = "reset" => consecutiveDetections' = 0]_vars

\* The fifth positive frame in a row has just put the first sample in the
\* buffer.
C26_Witness ==
  /\ op = "returned"
  /\ result.ret = "collecting"
  /\ consecutiveDetections = requiredDetections
  /\ Len(signalBuffer) = 1

C28_PlaceholderBlind ==
  imageSource = "placeholder" =>
    /\ pending # None => pending = Some("gray")
    /\ ~fingerDetected
    /\ consecutiveDetections = 0
    /\ signalBuffer = <<>>
    /\ heartRateHistory = <<>>
    /\ bpHistory = <<>>
    /\ ~result.fingerDetected
    /\ result.heartRate = None
    /\ result.bloodPressure = None
    /\ result.ret \notin {"full", "collecting"}

\* With the repository's extractImageData a frame showing a finger was
\* accepted after more than requiredDetections intervals of frames and
\* came back not-detected.
C28_Witness ==
  /\ imageSource = "placeholder"
  /\ op = "returned"
  /\ result = NotDetectedResult
  /\ lastProcessTime >= StartTime + requiredDetections * processingInterval

\* C30 (SpecApp): whenever processFrame returns a full result with a heart
\* rate, processVideoFrame stores its heart rate, blood pressure, confidence
\* and quality in the screen's state and sets fingerDetected to true, the
\* result passing the screen's test of result.isValid.
C30_ResultContract ==
  (op = "processVideoFrame" /\ result.ret = "full" /\ result.heartRate # None) =>
    /\ Truthy(result.isValid)
    /\ ui.heartRate = result.heartRate
    /\ ui.bloodPressure = result.bloodPressure
    /\ ui.confidence = result.confidence
    /\ ui.quality = result.quality
    /\ ui.fingerDetected

====
